---- MODULE Spec2Model ----
(***************************************************************************)
(* Adaptive refinement loop of playing-devils-advocate:                    *)
(*   teacher -> student critiques -> reward -> stopper -> {teacher |       *)
(*   single answer -> grading -> END}                                      *)
(* (src/graphs/adaptive_refinement_graph.py) together with the stopping    *)
(* policy (src/agents/stopping_agent.py) and the critique scoring of the   *)
(* reward node (src/agents/critique_eval_agent.py).                        *)
(*                                                                         *)
(* Conventions of the model                                                *)
(*  - The graph state is a Python dict; every key is one variable.  A key  *)
(*    that is absent holds the value the code reads for it through         *)
(*    state.get(key, default).                                             *)
(*  - Scores are Python floats severity + uniqueness * 3.0.  They are kept *)
(*    in fixed point, ScoreScale units per 1.0, so that int(score) is      *)
(*    score \div ScoreScale.                                               *)
(*  - Texts (explanations, issues) are abstract tokens.                    *)
(*  - A node that raises ends the run: pc = "RAISED" and no update of the  *)
(*    node is merged into the state.                                       *)
(***************************************************************************)
EXTENDS Integers, Sequences, FiniteSets, TLC

VARIABLES
    pc,                 \* node the graph runs next, "END" or "RAISED"
    profiles,           \* data/student_profiles.json supplied a persona list
    gpqa_question,      \* state["gpqa_question"]
    gpqa_quiz,          \* state["gpqa_quiz"]
    max_iters,          \* state["max_iters"]
    stagnation_window,  \* state["stagnation_window"]
    explanation,        \* state["explanation"]
    iteration,          \* state["iteration"]
    student_responses,  \* state["student_responses"]
    reward_scores,      \* state["reward_scores"]
    critique_rankings,  \* state["critique_rankings"]
    history,            \* state["history"]
    decision,           \* state["decision"]
    reason,             \* state["reason"]
    single_answer,      \* state["single_answer"]
    quiz_results,       \* state["quiz_results"]
    filtered_critiques, \* state["filtered_critiques"], the digest of the reward node
    student_score_history, \* state["student_score_history"]
    fb_text,            \* feedback part of the prompt the teacher built last
    visits,             \* number of completed executions of every node
    raised,             \* the node that raised, "none" while none did
    sd_in,              \* arguments of a direct call of one function
    sd_out              \* result of that call

runVars == <<pc, profiles, gpqa_question, gpqa_quiz, max_iters,
             stagnation_window, explanation, iteration, student_responses,
             reward_scores, critique_rankings, history, decision, reason,
             single_answer, quiz_results, filtered_critiques, fb_text,
             student_score_history,
             visits, raised>>

callVars == <<sd_in, sd_out>>

vars == <<pc, profiles, gpqa_question, gpqa_quiz, max_iters,
          stagnation_window, explanation, iteration, student_responses,
          reward_scores, critique_rankings, history, decision, reason,
          single_answer, quiz_results, filtered_critiques, fb_text,
             student_score_history,
          visits, raised, sd_in, sd_out>>

----------------------------------------------------------------------------
(* Bounds of the model *)

\* largest max_iters a run is started with
MaxItersBound == 3

\* longest score history handed to a direct call of the stopping policy
MaxHist == 2

\* largest iteration handed to a direct call of the stopping policy
MaxCallIter == 2

----------------------------------------------------------------------------
(* Constants of the program *)

NULL == "null"

\* fixed-point units per 1.0 of a float score
ScoreScale == 10

\* StopConfig defaults
DefaultMaxIterations == 5

DefaultStagnationWindow == 2

\* weight of the uniqueness bonus: uniqueness * 3.0
UniquenessWeight == 3

\* persona lists: the built-in defaults of the two modules (first two names
\* of each list) and the list both modules load from student_profiles.json
CommonDefaultPersonas == <<"advanced", "struggling">>

ConfigDefaultPersonas == <<"misconception_hunter", "clarity_critic">>

JsonPersonas == <<"p1", "p2">>

\* agents/common.py PERSONAS, imported by the stopper
CommonPERSONAS(p) == IF p THEN JsonPersonas ELSE CommonDefaultPersonas

\* config/agent_config.py PERSONAS, imported by students and reward
ConfigPERSONAS(p) == IF p THEN JsonPersonas ELSE ConfigDefaultPersonas

\* nodes of the graph
LoopNodes == {"teacher", "student critiques", "reward", "stopper"}

FinalNodes == {"single answer", "grading"}

Nodes == LoopNodes \cup FinalNodes

\* reasons returned by the stopping policy
MaxReason == "Max iterations reached."

AllOnesReason == "All personas scored 1 (no actionable feedback)."

EmptyReason == "All personas returned empty feedback."

ContinueReason == "Multiple strong or mixed signals present; continue refining."

StagnationReason(w) == "Stagnation: no score 3 for " \o ToString(w) \o " consecutive rounds."

----------------------------------------------------------------------------
(* Helpers *)

Range(s) == {s[i] : i \in 1..Len(s)}

Min(a, b) == IF a <= b THEN a ELSE b

\* dict.get(k, d)
Get(d, k, dflt) == IF k \in DOMAIN d THEN d[k] ELSE dflt

\* int(x) of a non-negative fixed-point score
IntOf(x) == x \div ScoreScale

\* seq[-n:] of Python: the last n elements, the whole list when n = 0
Tail_n(s, n) == IF n = 0 \/ n >= Len(s) THEN s ELSE SubSeq(s, Len(s) - n + 1, Len(s))

----------------------------------------------------------------------------
(* Stopping policy: agents/stopping_agent.py *)

\* [int(scores.get(p, 0) or 0) for p in PERSONAS]
PersonaVals(scores, P) == [i \in 1..Len(P) |-> IntOf(Get(scores, P[i], 0))]

\* any(v == 3 for v in vals)
HasThree(scores, P) == \E i \in 1..Len(P) : PersonaVals(scores, P)[i] = 3

\* all(v == 1 for v in vals)
AllOnes(scores, P) == \A i \in 1..Len(P) : PersonaVals(scores, P)[i] = 1

\* the stagnation rule without the test window == cfg.stagnation_window
Stagnant_short_window(scores, history_scores, w, P) ==
    LET window == Min(w, Len(history_scores))
        recent == Tail_n(history_scores, window)
        no3_prev == \A i \in 1..Len(recent) : ~HasThree(recent[i], P)
    IN  /\ ~HasThree(scores, P)
        /\ w > 0
        /\ no3_prev

\* the stagnation rule without the test count3 == 0 of the current round
Stagnant_ignores_current(scores, history_scores, w, P) ==
    LET window == Min(w, Len(history_scores))
        recent == Tail_n(history_scores, window)
        no3_prev == \A i \in 1..Len(recent) : ~HasThree(recent[i], P)
    IN  /\ w > 0
        /\ no3_prev
        /\ window = w

\* the stagnation rule: no 3 now, and no 3 in history_scores[-window:]
\* with window == cfg.stagnation_window entries on record
Stagnant(scores, history_scores, w, P) ==
    LET window == Min(w, Len(history_scores))
        recent == Tail_n(history_scores, window)
        no3_prev == \A i \in 1..Len(recent) : ~HasThree(recent[i], P)
    IN  /\ ~HasThree(scores, P)
        /\ w > 0
        /\ no3_prev
        /\ window = w

\* stopping_decision without the rule for scores that are all 1
stopping_decision_without_all_ones(scores, history_scores, iter, maxIt, w, P) ==
    IF iter >= maxIt
    THEN [decision |-> "STOP", reason |-> MaxReason]
    ELSE IF Stagnant(scores, history_scores, w, P)
    THEN [decision |-> "STOP", reason |-> StagnationReason(w)]
    ELSE [decision |-> "CONTINUE", reason |-> ContinueReason]

\* stopping_decision with the stagnation rule tested before the all-1 rule
stopping_decision_stagnation_first(scores, history_scores, iter, maxIt, w, P) ==
    IF iter >= maxIt
    THEN [decision |-> "STOP", reason |-> MaxReason]
    ELSE IF Stagnant(scores, history_scores, w, P)
    THEN [decision |-> "STOP", reason |-> StagnationReason(w)]
    ELSE IF AllOnes(scores, P)
    THEN [decision |-> "STOP", reason |-> AllOnesReason]
    ELSE [decision |-> "CONTINUE", reason |-> ContinueReason]

\* stopping_decision with the cap tested by > instead of >=
stopping_decision_late_cap(scores, history_scores, iter, maxIt, w, P) ==
    IF iter > maxIt
    THEN [decision |-> "STOP", reason |-> MaxReason]
    ELSE IF AllOnes(scores, P)
    THEN [decision |-> "STOP", reason |-> AllOnesReason]
    ELSE IF Stagnant(scores, history_scores, w, P)
    THEN [decision |-> "STOP", reason |-> StagnationReason(w)]
    ELSE [decision |-> "CONTINUE", reason |-> ContinueReason]

\* stopping_decision with the cap tested after the score rules
stopping_decision_cap_last(scores, history_scores, iter, maxIt, w, P) ==
    IF AllOnes(scores, P)
    THEN [decision |-> "STOP", reason |-> AllOnesReason]
    ELSE IF Stagnant(scores, history_scores, w, P)
    THEN [decision |-> "STOP", reason |-> StagnationReason(w)]
    ELSE IF iter >= maxIt
    THEN [decision |-> "STOP", reason |-> MaxReason]
    ELSE [decision |-> "CONTINUE", reason |-> ContinueReason]

stopping_decision(scores, history_scores, iter, maxIt, w, P) ==
    IF iter >= maxIt
    THEN [decision |-> "STOP", reason |-> MaxReason]
    ELSE IF AllOnes(scores, P)
    THEN [decision |-> "STOP", reason |-> AllOnesReason]
    ELSE IF Stagnant(scores, history_scores, w, P)
    THEN [decision |-> "STOP", reason |-> StagnationReason(w)]
    ELSE [decision |-> "CONTINUE", reason |-> ContinueReason]

\* isinstance(h.get("reward_scores"), dict) and h.get("reward_scores")
HasScores(h) == "reward_scores" \in DOMAIN h /\ DOMAIN h.reward_scores # {}

\* the history filter of stopper_node leaving out the latest snapshot
HistoryScores_prior_only(raw_hist) ==
    LET F[i \in 0..Len(raw_hist)] ==
            IF i = 0 THEN <<>>
            ELSE IF HasScores(raw_hist[i]) /\ i < Len(raw_hist)
                 THEN Append(F[i - 1], raw_hist[i].reward_scores)
                 ELSE F[i - 1]
    IN  F[Len(raw_hist)]

\* [h.get("reward_scores", {}) for h in raw_hist if ...]
RECURSIVE HistoryScores(_)
HistoryScores(raw_hist) ==
    IF raw_hist = <<>> THEN <<>>
    ELSE IF HasScores(Head(raw_hist))
         THEN <<Head(raw_hist).reward_scores>> \o HistoryScores(Tail(raw_hist))
         ELSE HistoryScores(Tail(raw_hist))

\* the empty-feedback test reading only the keys present in responses
AllEmpty_missing_is_feedback(responses, P) ==
    \A i \in 1..Len(P) : P[i] \in DOMAIN responses /\ DOMAIN responses[P[i]] = {}

\* recent = history_scores[-window:]
\* with window = min(config.stagnation_window, len(history_scores))
StagnationRecent(history_scores, w) ==
    Tail_n(history_scores, Min(w, Len(history_scores)))

\* all(isinstance(responses.get(p, {}), dict)
\*     and len(responses.get(p, {})) == 0 for p in PERSONAS)
\* a stored response of a persona is either the empty object <<>> or a record
AllEmpty(responses, P) ==
    \A i \in 1..Len(P) : DOMAIN Get(responses, P[i], <<>>) = {}

\* stopper_node with the cap tested before the empty feedback
stopper_node_cap_first(responses, scores, raw_hist, iter, maxIt, w, P) ==
    IF iter >= maxIt
    THEN [decision |-> "STOP", reason |-> MaxReason]
    ELSE IF AllEmpty(responses, P)
    THEN [decision |-> "STOP", reason |-> EmptyReason]
    ELSE stopping_decision(scores, HistoryScores(raw_hist), iter, maxIt, w, P)

\* stopper_node with the empty feedback tested after the other rules
stopper_node_empty_last(responses, scores, raw_hist, iter, maxIt, w, P) ==
    LET d == stopping_decision(scores, HistoryScores(raw_hist), iter, maxIt, w, P)
    IN  IF d.decision = "CONTINUE" /\ AllEmpty(responses, P)
        THEN [decision |-> "STOP", reason |-> EmptyReason]
        ELSE d

stopper_node(responses, scores, raw_hist, iter, maxIt, w, P) ==
    IF AllEmpty(responses, P)
    THEN [decision |-> "STOP", reason |-> EmptyReason]
    ELSE stopping_decision(scores, HistoryScores(raw_hist), iter, maxIt, w, P)

\* route_from_stop with its two branches exchanged
route_swapped(d) == IF d = "STOP" THEN "teacher" ELSE "single answer"

\* route_from_stop comparing with a string the stopper never returns
route_never_stops(d) == IF d = "stop" THEN "single answer" ELSE "teacher"

\* route_from_stop of the graph
route_from_stop(d) == IF d = "STOP" THEN "single answer" ELSE "teacher"

----------------------------------------------------------------------------
(* Critique scoring of the reward node: agents/critique_eval_agent.py *)

\* issue texts a persona may return; NULL is "no issue found"
Issues == {"X"}

\* integers the severity judge answers in a run (7 stands for any value
\* outside 0..3)
RawSeverities == {1, 3, 7}

\* floats the uniqueness judge answers in a run, in fixed point (15 stands
\* for any value above 1.0)
RawUniqueness == {0, 10, 15}

\* outcome of the uniqueness judging call: an answer, or the call failed
UniqOutcomes == {[ok |-> TRUE, val |-> v] : v \in RawUniqueness} \cup {[ok |-> FALSE, val |-> 0]}

\* _judge_severity: a severity outside {0,1,2,3} becomes 1
judge_severity(raw) == IF raw \in {0, 1, 2, 3} THEN raw ELSE 1

\* str.lower() of a one-letter issue text
Lower(t) == IF t = "X" THEN "x" ELSE IF t = "Y" THEN "y" ELSE t

\* difflib.SequenceMatcher(None, a.lower(), b.lower()).ratio() of two
\* one-letter issue texts: 1.0 when equal, 0.0 otherwise
Similarity(a, b) == IF Lower(a) = Lower(b) THEN ScoreScale ELSE 0

MaxOf(S) == CHOOSE m \in S : \A x \in S : x <= m

\* the uniqueness judge is called: not (not issue or not other_issues)
uniqueness_judged(issue, others) == issue # "" /\ others # <<>>

\* _calculate_uniqueness without the clamp of the judge's answer
calculate_uniqueness_unclamped(issue, others, outcome) ==
    IF ~uniqueness_judged(issue, others) THEN ScoreScale
    ELSE IF outcome.ok
         THEN outcome.val
         ELSE ScoreScale - MaxOf({Similarity(issue, others[i]) : i \in 1..Len(others)})

\* _calculate_uniqueness whose fallback returns the similarity itself
calculate_uniqueness_similarity(issue, others, outcome) ==
    IF ~uniqueness_judged(issue, others) THEN ScoreScale
    ELSE IF outcome.ok
         THEN (IF outcome.val > ScoreScale THEN ScoreScale
               ELSE IF outcome.val < 0 THEN 0 ELSE outcome.val)
         ELSE MaxOf({Similarity(issue, others[i]) : i \in 1..Len(others)})

\* _calculate_uniqueness(issue, other_issues), others as a sequence
calculate_uniqueness(issue, others, outcome) ==
    IF ~uniqueness_judged(issue, others) THEN ScoreScale
    ELSE IF outcome.ok
         THEN (IF outcome.val > ScoreScale THEN ScoreScale
               ELSE IF outcome.val < 0 THEN 0 ELSE outcome.val)
         ELSE ScoreScale - MaxOf({Similarity(issue, others[i]) : i \in 1..Len(others)})

\* the issues of the personas inserted before persona only
OtherIssues_earlier_only(responses, P, persona) ==
    LET idx == CHOOSE i \in 1..Len(P) : P[i] = persona
        F[i \in 0..(idx - 1)] ==
            IF i = 0 THEN <<>>
            ELSE IF responses[P[i]].issue # NULL
                 THEN Append(F[i - 1], responses[P[i]].issue)
                 ELSE F[i - 1]
    IN  F[idx - 1]

\* [responses[p].get("issue") for p in responses
\*      if p != persona and responses[p].get("issue") is not None]
RECURSIVE OtherIssues(_, _, _)
OtherIssues(responses, P, persona) ==
    IF P = <<>> THEN <<>>
    ELSE LET rest == OtherIssues(responses, Tail(P), persona)
             p == Head(P)
         IN  IF p # persona /\ responses[p].issue # NULL
             THEN <<responses[p].issue>> \o rest
             ELSE rest

\* the loop body of _score_and_rank_critiques without the branch for a
\* null issue: every persona is judged
ScoreOne_judges_null(responses, P, persona, rawSev, uniqOut) ==
    LET issue == responses[persona].issue
        others == OtherIssues(responses, P, persona)
        sev == judge_severity(rawSev[persona])
        uq == calculate_uniqueness(issue, others, uniqOut[persona])
        bonus == uq * UniquenessWeight
    IN  [persona |-> persona, issue |-> issue, score |-> sev * ScoreScale + bonus,
         validated_severity |-> sev, uniqueness |-> uq, uniqueness_bonus |-> bonus,
         severity_judged |-> TRUE,
         uniqueness_judged |-> uniqueness_judged(issue, others)]

\* the entry appended to scored for one persona, and whether the severity
\* judge and the uniqueness judge were called for it
ScoreOne(responses, P, persona, rawSev, uniqOut) ==
    LET issue == responses[persona].issue
    IN  IF issue = NULL
        THEN [persona |-> persona, issue |-> issue, score |-> 0,
              validated_severity |-> 0, uniqueness |-> 0, uniqueness_bonus |-> 0,
              severity_judged |-> FALSE, uniqueness_judged |-> FALSE]
        ELSE LET others == OtherIssues(responses, P, persona)
                 sev == judge_severity(rawSev[persona])
                 uq == calculate_uniqueness(issue, others, uniqOut[persona])
                 bonus == uq * UniquenessWeight
             IN  [persona |-> persona, issue |-> issue, score |-> sev * ScoreScale + bonus,
                  validated_severity |-> sev, uniqueness |-> uq, uniqueness_bonus |-> bonus,
                  severity_judged |-> TRUE,
                  uniqueness_judged |-> uniqueness_judged(issue, others)]

\* insertion before the entries of equal score: a sort that is not stable
RECURSIVE InsertByScore_before_equal(_, _)
InsertByScore_before_equal(sorted, item) ==
    IF sorted = <<>> THEN <<item>>
    ELSE IF Head(sorted).score > item.score
         THEN <<Head(sorted)>> \o InsertByScore_before_equal(Tail(sorted), item)
         ELSE <<item>> \o sorted

\* insertion of one entry into a list sorted by descending score, after the
\* entries of equal score (list.sort(reverse=True) is stable)
RECURSIVE InsertByScore(_, _)
InsertByScore(sorted, item) ==
    IF sorted = <<>> THEN <<item>>
    ELSE IF Head(sorted).score >= item.score
         THEN <<Head(sorted)>> \o InsertByScore(Tail(sorted), item)
         ELSE <<item>> \o sorted

RECURSIVE SortByScore(_)
SortByScore(items) ==
    IF items = <<>> THEN <<>>
    ELSE InsertByScore(SortByScore(SubSeq(items, 1, Len(items) - 1)), items[Len(items)])

\* _score_and_rank_critiques: P is the key order of responses
score_and_rank_critiques(responses, P, rawSev, uniqOut) ==
    LET scored == [i \in 1..Len(P) |-> ScoreOne(responses, P, P[i], rawSev, uniqOut)]
        sorted == SortByScore(scored)
    IN  [i \in 1..Len(sorted) |->
            [persona |-> sorted[i].persona, issue |-> sorted[i].issue,
             score |-> sorted[i].score,
             validated_severity |-> sorted[i].validated_severity,
             uniqueness |-> sorted[i].uniqueness,
             uniqueness_bonus |-> sorted[i].uniqueness_bonus,
             rank |-> i]]

\* the personas the severity judge and the uniqueness judge are called for
JudgeCalls(responses, P, rawSev, uniqOut) ==
    [severity |-> {p \in Range(P) : ScoreOne(responses, P, p, rawSev, uniqOut).severity_judged},
     uniqueness |-> {p \in Range(P) : ScoreOne(responses, P, p, rawSev, uniqOut).uniqueness_judged}]

\* {item["persona"]: item["score"] for item in scored}
ScoresOf(scored) ==
    [p \in {scored[i].persona : i \in 1..Len(scored)} |->
        (CHOOSE it \in Range(scored) : it.persona = p).score]

\* a text of the program: its fixed wording and the items listed under it
NoText == [text |-> "", items |-> <<>>]

\* top_k of the call _format_filtered_critiques(scored, top_k=3)
TopK == 3

SentinelDigest == "No significant issues identified by students."

DigestHeader == "TOP STUDENT CONCERNS:"

\* seq[:k] of Python for k >= 0
Take(s, k) == SubSeq(s, 1, Min(k, Len(s)))

\* [s for s in scored if s["validated_severity"] > 0]
ActualIssues(scored) == SelectSeq(scored, LAMBDA s : s.validated_severity > 0)

\* the block of the digest written for one entry: persona, severity,
\* score with one decimal (the fixed-point unit), issue and rank
DigestItem(item) ==
    [persona |-> item.persona, validated_severity |-> item.validated_severity,
     score |-> item.score, issue |-> item.issue, rank |-> item.rank]

\* _format_filtered_critiques that filters by validated_severity >= 0
format_filtered_critiques_keeps_trivial(scored, top_k) ==
    LET top_issues == Take(scored, top_k)
    IN  IF top_issues = <<>>
        THEN [text |-> SentinelDigest, items |-> <<>>]
        ELSE [text |-> DigestHeader,
              items |-> [i \in 1..Len(top_issues) |-> DigestItem(top_issues[i])]]

\* _format_filtered_critiques(scored, top_k)
format_filtered_critiques(scored, top_k) ==
    LET top_issues == Take(ActualIssues(scored), top_k)
    IN  IF top_issues = <<>>
        THEN [text |-> SentinelDigest, items |-> <<>>]
        ELSE [text |-> DigestHeader,
              items |-> [i \in 1..Len(top_issues) |-> DigestItem(top_issues[i])]]

----------------------------------------------------------------------------
(* Feedback of the teacher: agents/teacher_agent.py *)

\* the categories _process_feedback reads from a persona's feedback object
FeedbackCategories == {"requests", "didnt_work", "confusions"}

\* the items of one feedback object under the categories it carries
CategoryItems(fb) ==
    UNION {Range(fb[c]) : c \in FeedbackCategories \cap DOMAIN fb}

\* _process_feedback(student_feedback): the items counted over every
\* persona, listed by persona; empty when no object carries a category
RECURSIVE ItemsOf(_, _)
ItemsOf(student_feedback, todo) ==
    IF todo = {} THEN <<>>
    ELSE LET p == CHOOSE q \in todo : TRUE
             its == CategoryItems(student_feedback[p])
         IN  (IF its = {} THEN <<>> ELSE <<its>>) \o ItemsOf(student_feedback, todo \ {p})

process_feedback(student_feedback) == ItemsOf(student_feedback, DOMAIN student_feedback)

\* last_feedback of adaptive_teacher_node: None on an empty history,
\* else history[-1].get("student_responses")
last_feedback(hist) ==
    IF hist = <<>> THEN [given |-> FALSE, value |-> <<>>]
    ELSE [given |-> "student_responses" \in DOMAIN hist[Len(hist)],
          value |-> Get(hist[Len(hist)], "student_responses", <<>>)]

FeedbackHeader == "Student feedback to address (ranked by frequency):"

NoActionableFeedback == "No actionable feedback this round."

\* fb_text of _build_teacher_prompt in adaptive mode
build_fb_text(fb) ==
    IF fb.given /\ process_feedback(fb.value) # <<>>
    THEN [text |-> FeedbackHeader, items |-> process_feedback(fb.value)]
    ELSE IF fb.given
         THEN [text |-> NoActionableFeedback, items |-> <<>>]
         ELSE NoText

----------------------------------------------------------------------------
(* The adaptive refinement graph: graphs/adaptive_refinement_graph.py *)

\* values of gpqa_question a run is started with: an empty dict or a question
GpqaQuestions == {"{}", "question"}

\* values of gpqa_quiz in the starting state: absent (create_initial_state
\* does not set it) or a non-empty quiz list supplied by the caller
GpqaQuizzes == {<<>>, <<"quiz item">>}

\* texts the teacher call may return after whitespace normalisation
TeacherTexts == {"", "explanation"}

\* the answer letter, one of A-D
Letters == {"A-D"}

NoCall == [kind |-> "none"]

\* the part of the start state that is the same in every specification
RunStart ==
    /\ pc = "teacher"
    /\ explanation = ""
    /\ iteration = 0
    /\ student_responses = <<>>
    /\ reward_scores = <<>>
    /\ critique_rankings = <<>>
    /\ history = <<>>
    /\ decision = ""
    /\ reason = ""
    /\ single_answer = ""
    /\ quiz_results = ""
    /\ filtered_critiques = NoText
    /\ student_score_history = <<>>
    /\ fb_text = NoText
    /\ visits = [n \in Nodes |-> 0]
    /\ raised = "none"

\* create_initial_state(gpqa_question, threshold, max_iters), optionally
\* extended by the caller with gpqa_quiz; stagnation_window is absent and
\* read as the StopConfig default
Init ==
    /\ RunStart
    /\ profiles \in BOOLEAN
    /\ gpqa_question \in GpqaQuestions
    /\ gpqa_quiz \in GpqaQuizzes
    /\ max_iters \in 0..MaxItersBound
    /\ stagnation_window = DefaultStagnationWindow
    /\ sd_in = NoCall
    /\ sd_out = NoCall

\* node n returns its update
Visit(n) == visits' = [visits EXCEPT ![n] = @ + 1] /\ raised' = raised

\* a node raises: the run ends and the state keeps its last merged value
Raise(n) ==
    /\ raised' = n
    /\ pc' = "RAISED"
    /\ UNCHANGED <<visits, profiles, gpqa_question, gpqa_quiz, max_iters, stagnation_window,
                   student_score_history,
                   explanation, iteration, student_responses, reward_scores,
                   critique_rankings, history, decision, reason, single_answer,
                   quiz_results, filtered_critiques, fb_text,
                   sd_in, sd_out>>

\* the iteration of baseline_teacher_node, which always returns 1
NextIterationBaseline(it) == 1

\* iteration = int(state.get("iteration", 0)) + 1
NextIteration(it) == it + 1

\* a history that is rebuilt from the new entry alone
AppendEntryFresh(hist, entry) == <<entry>>

\* history = list(state.get("history", [])); history.append(entry)
AppendEntry(hist, entry) == Append(hist, entry)

\* adaptive_teacher_node
Teacher ==
    /\ pc = "teacher"
    /\ gpqa_question # "{}"
    /\ Visit("teacher")
    /\ fb_text' = build_fb_text(last_feedback(history))
    /\ \E text \in TeacherTexts : explanation' = text
    /\ iteration' = NextIteration(iteration)
    /\ pc' = "student critiques"
    /\ UNCHANGED <<profiles, gpqa_question, gpqa_quiz, max_iters, stagnation_window,
                   student_score_history,
                   student_responses, reward_scores, critique_rankings, history,
                   decision, reason, single_answer, quiz_results, filtered_critiques,
                   sd_in, sd_out>>

\* adaptive_teacher_node raises: gpqa_question is empty or the call fails
TeacherRaises ==
    /\ pc = "teacher"
    /\ Raise("teacher")

\* student_critiques_node: one student_respond per persona of config.PERSONAS
Students ==
    /\ pc = "student critiques"
    /\ explanation # ""
    /\ Visit("student critiques")
    /\ \E issue \in [Range(ConfigPERSONAS(profiles)) -> Issues \cup {NULL}] :
          student_responses' =
              [p \in Range(ConfigPERSONAS(profiles)) |->
                  [persona |-> p, issue |-> issue[p],
                   quote |-> IF issue[p] = NULL THEN NULL ELSE "quote"]]
    /\ pc' = "reward"
    /\ UNCHANGED <<profiles, gpqa_question, gpqa_quiz, max_iters, stagnation_window,
                   student_score_history,
                   explanation, iteration, reward_scores, critique_rankings, history,
                   decision, reason, single_answer, quiz_results,
                   filtered_critiques, fb_text, sd_in, sd_out>>

\* student_critiques_node raises: blank explanation, failed call, unparsable
\* output or an object whose keys are not exactly issue and quote
StudentsRaises ==
    /\ pc = "student critiques"
    /\ Raise("student critiques")

\* the entry _update_score_history appends for one scored critique
ScoreEntry(item, current_iteration) ==
    [iteration |-> current_iteration, score |-> item.score, rank |-> item.rank,
     issue |-> IF item.issue = NULL \/ item.issue = "" THEN "No issue found"
               ELSE item.issue,
     validated_severity |-> item.validated_severity,
     uniqueness |-> item.uniqueness,
     uniqueness_bonus |-> item.uniqueness_bonus]

\* the persona's list replaced by the new entry
AppendScore_rewrites(current_history, persona, entry) ==
    [q \in DOMAIN current_history \cup {persona} |->
        IF q = persona THEN <<entry>> ELSE current_history[q]]

\* current_history[persona].append(entry), the list created when absent
AppendScore(current_history, persona, entry) ==
    [q \in DOMAIN current_history \cup {persona} |->
        IF q = persona THEN Append(Get(current_history, persona, <<>>), entry)
        ELSE current_history[q]]

\* _update_score_history(state, scored): one append per scored critique
RECURSIVE update_score_history(_, _, _)
update_score_history(current_history, current_iteration, scored) ==
    IF scored = <<>> THEN current_history
    ELSE update_score_history(
             AppendScore(current_history, Head(scored).persona,
                         ScoreEntry(Head(scored), current_iteration)),
             current_iteration, Tail(scored))

\* reward_node
Reward ==
    /\ pc = "reward"
    /\ Visit("reward")
    /\ \E rawSev \in [Range(ConfigPERSONAS(profiles)) -> RawSeverities],
          uniqOut \in [Range(ConfigPERSONAS(profiles)) -> UniqOutcomes] :
          LET scored == score_and_rank_critiques(student_responses,
                            ConfigPERSONAS(profiles), rawSev, uniqOut)
              digest == format_filtered_critiques(scored, TopK)
          IN  /\ critique_rankings' = scored
              /\ filtered_critiques' = digest
              /\ student_score_history' =
                    update_score_history(student_score_history, iteration, scored)
              /\ reward_scores' = ScoresOf(scored)
              /\ history' = AppendEntry(history,
                    [iteration |-> iteration, explanation |-> explanation,
                     student_responses |-> student_responses,
                     reward_scores |-> ScoresOf(scored),
                     critique_rankings |-> scored,
                     filtered_critiques |-> digest])
    /\ pc' = "stopper"
    /\ UNCHANGED <<profiles, gpqa_question, gpqa_quiz, max_iters, stagnation_window,
                   explanation, iteration, student_responses, decision, reason,
                   single_answer, quiz_results, fb_text, sd_in, sd_out>>

\* reward_node raising after the score history was updated in place: the
\* entries of the failed round stay in the state
RewardRaises_after_logging ==
    /\ pc = "reward"
    /\ \E p \in DOMAIN student_responses : student_responses[p].issue # NULL
    /\ raised' = "reward"
    /\ pc' = "RAISED"
    /\ \E rawSev \in [Range(ConfigPERSONAS(profiles)) -> RawSeverities],
          uniqOut \in [Range(ConfigPERSONAS(profiles)) -> UniqOutcomes] :
          student_score_history' =
              update_score_history(student_score_history, iteration,
                  score_and_rank_critiques(student_responses,
                      ConfigPERSONAS(profiles), rawSev, uniqOut))
    /\ UNCHANGED <<visits, profiles, gpqa_question, gpqa_quiz, max_iters,
                   stagnation_window, explanation, iteration, student_responses,
                   reward_scores, critique_rankings, history, decision, reason,
                   single_answer, quiz_results, filtered_critiques, fb_text,
                   sd_in, sd_out>>

\* reward_node raises: a severity-judge call fails (one is made for every
\* persona with a non-null issue)
RewardRaises ==
    /\ pc = "reward"
    /\ \E p \in DOMAIN student_responses : student_responses[p].issue # NULL
    /\ Raise("reward")

\* stopper_node followed by route_from_stop
Stopper ==
    /\ pc = "stopper"
    /\ Visit("stopper")
    /\ LET d == stopper_node(student_responses, reward_scores, history, iteration,
                             max_iters, stagnation_window, CommonPERSONAS(profiles))
       IN  /\ decision' = d.decision
           /\ reason' = d.reason
           /\ pc' = route_from_stop(d.decision)
    /\ UNCHANGED <<profiles, gpqa_question, gpqa_quiz, max_iters, stagnation_window,
                   student_score_history,
                   explanation, iteration, student_responses, reward_scores,
                   critique_rankings, history, single_answer, quiz_results,
                   filtered_critiques, fb_text,
                   sd_in, sd_out>>

\* single_answer_node
SingleAnswer ==
    /\ pc = "single answer"
    /\ explanation # ""
    /\ gpqa_question # "{}"
    /\ Visit("single answer")
    /\ \E letter \in Letters : single_answer' = letter
    /\ pc' = "grading"
    /\ UNCHANGED <<profiles, gpqa_question, gpqa_quiz, max_iters, stagnation_window,
                   student_score_history,
                   explanation, iteration, student_responses, reward_scores,
                   critique_rankings, history, decision, reason, quiz_results,
                   filtered_critiques, fb_text,
                   sd_in, sd_out>>

\* single_answer_node raises: failed call or no answer letter extracted
SingleAnswerRaises ==
    /\ pc = "single answer"
    /\ Raise("single answer")

\* grading_node without the test of gpqa_quiz: an absent quiz is graded as
\* an empty one
Grading_without_quiz_test ==
    /\ pc = "grading"
    /\ Visit("grading")
    /\ quiz_results' = "results"
    /\ history' = AppendEntry(history,
          [iteration |-> iteration, explanation |-> explanation,
           quiz |-> gpqa_quiz, quiz_results |-> "results"])
    /\ pc' = "END"
    /\ UNCHANGED <<profiles, gpqa_question, gpqa_quiz, max_iters, stagnation_window,
                   student_score_history,
                   explanation, iteration, student_responses, reward_scores,
                   critique_rankings, decision, reason, single_answer,
                   filtered_critiques, fb_text,
                   sd_in, sd_out>>

\* grading_node
Grading ==
    /\ pc = "grading"
    /\ gpqa_quiz # <<>>
    /\ Visit("grading")
    /\ quiz_results' = "results"
    /\ history' = AppendEntry(history,
          [iteration |-> iteration, explanation |-> explanation,
           quiz |-> gpqa_quiz, quiz_results |-> "results"])
    /\ pc' = "END"
    /\ UNCHANGED <<profiles, gpqa_question, gpqa_quiz, max_iters, stagnation_window,
                   student_score_history,
                   explanation, iteration, student_responses, reward_scores,
                   critique_rankings, decision, reason, single_answer,
                   filtered_critiques, fb_text,
                   sd_in, sd_out>>

\* grading_node raises: gpqa_quiz is missing or empty, or an answer call fails
GradingRaises ==
    /\ pc = "grading"
    /\ Raise("grading")

Next ==
    \/ Teacher
    \/ TeacherRaises
    \/ Students
    \/ StudentsRaises
    \/ Reward
    \/ RewardRaises
    \/ Stopper
    \/ SingleAnswer
    \/ SingleAnswerRaises
    \/ Grading
    \/ GradingRaises

Spec == Init /\ [][Next]_vars

----------------------------------------------------------------------------
(* Direct calls of the stopping policy with arguments drawn from bounded     *)
(* sets: stopping_decision(scores, history_scores, iteration, config) and    *)
(* stopper_node(state)                                                       *)

\* largest stagnation_window of a drawn StopConfig
MaxWindow == 2

\* the persona list of the stopper in the drawn calls
CallPersonas == CommonPERSONAS(TRUE)

\* scores of the current round: 1.0, 2.0, 3.0, 3.5 and 6.0
CallScores == {10, 20, 30, 35, 60}

\* history entries: a round without a 3, a round with a 3, and an entry
\* that records no reward_scores (the quiz entry of grading_node)
CallHistEntries ==
    { [reward_scores |-> [p \in Range(CallPersonas) |-> 20]],
      [reward_scores |-> [p \in Range(CallPersonas) |->
                              IF p = CallPersonas[1] THEN 35 ELSE 20]],
      [quiz_results |-> "results"] }

RECURSIVE SeqsUpTo(_, _)
SeqsUpTo(S, n) ==
    IF n = 0 THEN {<<>>}
    ELSE LET shorter == SeqsUpTo(S, n - 1)
         IN  shorter \cup {Append(q, x) : q \in shorter, x \in S}

ACritique == [persona |-> "p", issue |-> "X", quote |-> "quote"]

\* student_responses of a drawn state: no key at all, every persona with an
\* empty object, one persona with a critique, every persona with a critique
CallResponses ==
    { <<>>,
      [p \in Range(CallPersonas) |-> <<>>],
      [p \in Range(CallPersonas) |-> IF p = CallPersonas[1] THEN <<>> ELSE ACritique],
      [p \in Range(CallPersonas) |-> ACritique] }

CallInputs ==
    [ kind : {"args"},
      responses : CallResponses,
      scores : [Range(CallPersonas) -> CallScores],
      history : SeqsUpTo(CallHistEntries, MaxHist),
      iteration : 0..MaxCallIter,
      max_iterations : 0..MaxCallIter,
      stagnation_window : 0..MaxWindow ]

InitStop ==
    /\ RunStart
    /\ profiles = TRUE
    /\ gpqa_question = "question"
    /\ gpqa_quiz = <<>>
    /\ max_iters = DefaultMaxIterations
    /\ stagnation_window = DefaultStagnationWindow
    /\ sd_in \in CallInputs
    /\ sd_out = NoCall

\* stopping_decision(scores, history_scores, iteration, config)
CallStoppingDecision ==
    /\ sd_out = NoCall
    /\ LET d == stopping_decision(sd_in.scores, HistoryScores(sd_in.history),
                                  sd_in.iteration, sd_in.max_iterations,
                                  sd_in.stagnation_window, CallPersonas)
       IN  sd_out' = [kind |-> "stopping_decision",
                      decision |-> d.decision, reason |-> d.reason]
    /\ UNCHANGED <<runVars, sd_in>>

\* stopper_node(state)
CallStopperNode ==
    /\ sd_out = NoCall
    /\ LET d == stopper_node(sd_in.responses, sd_in.scores, sd_in.history,
                             sd_in.iteration, sd_in.max_iterations,
                             sd_in.stagnation_window, CallPersonas)
       IN  sd_out' = [kind |-> "stopper_node",
                      decision |-> d.decision, reason |-> d.reason]
    /\ UNCHANGED <<runVars, sd_in>>

NextStop ==
    \/ CallStoppingDecision
    \/ CallStopperNode

SpecStop == InitStop /\ [][NextStop]_vars

----------------------------------------------------------------------------
(* Rounds of a run with three personas as the stopper sees them: every     *)
(* round the iteration, the critiques, the reward scores and the history   *)
(* snapshot are written as teacher, students and reward node write them,   *)
(* the scores being drawn, and stopper_node decides                        *)

\* the persona list student_profiles.json supplies to both modules
ScenarioPersonas == <<"A", "B", "C">>

\* scores the reward node writes: 1.0, 2.0 or 3.0 for A, 1.0 or 2.0 for B, C
ScenarioScores(p) == IF p = "A" THEN {10, 20, 30} ELSE {10, 20}

ScenarioScoreMaps ==
    {f \in [Range(ScenarioPersonas) -> {10, 20, 30}] :
        \A p \in Range(ScenarioPersonas) : f[p] \in ScenarioScores(p)}

\* create_initial_state with max_iters = 5, the default stagnation_window
InitScenario ==
    /\ RunStart
    /\ profiles = TRUE
    /\ gpqa_question = "question"
    /\ gpqa_quiz = <<"quiz item">>
    /\ max_iters = DefaultMaxIterations
    /\ stagnation_window = DefaultStagnationWindow
    /\ sd_in = NoCall
    /\ sd_out = NoCall

\* teacher, students and reward node of one round: iteration + 1, a
\* critique of every persona, the round's scores and its history snapshot
ScenarioRound ==
    /\ pc = "teacher"
    /\ fb_text' = build_fb_text(last_feedback(history))
    /\ explanation' = "explanation"
    /\ iteration' = NextIteration(iteration)
    /\ student_responses' = [p \in Range(ScenarioPersonas) |->
                                [persona |-> p, issue |-> "X", quote |-> "quote"]]
    /\ \E scores \in ScenarioScoreMaps :
          /\ reward_scores' = scores
          /\ history' = AppendEntry(history,
                [iteration |-> iteration', explanation |-> explanation',
                 student_responses |-> student_responses',
                 reward_scores |-> scores])
    /\ visits' = [n \in Nodes |->
                    IF n \in {"teacher", "student critiques", "reward"}
                    THEN visits[n] + 1 ELSE visits[n]]
    /\ pc' = "stopper"
    /\ UNCHANGED <<profiles, gpqa_question, gpqa_quiz, max_iters, stagnation_window,
                   student_score_history,
                   critique_rankings, decision, reason, single_answer, quiz_results,
                   filtered_critiques, raised, sd_in, sd_out>>

\* stopper_node followed by route_from_stop, for the three personas
ScenarioStopper ==
    /\ pc = "stopper"
    /\ Visit("stopper")
    /\ LET d == stopper_node(student_responses, reward_scores, history, iteration,
                             max_iters, stagnation_window, ScenarioPersonas)
       IN  /\ decision' = d.decision
           /\ reason' = d.reason
           /\ pc' = route_from_stop(d.decision)
    /\ UNCHANGED <<profiles, gpqa_question, gpqa_quiz, max_iters, stagnation_window,
                   student_score_history,
                   explanation, iteration, student_responses, reward_scores,
                   critique_rankings, history, single_answer, quiz_results,
                   filtered_critiques, fb_text, sd_in, sd_out>>

NextScenario ==
    \/ ScenarioRound
    \/ ScenarioStopper

SpecScenario == InitScenario /\ [][NextScenario]_vars

----------------------------------------------------------------------------
(* Direct calls of the critique scoring with arguments and judge answers   *)
(* drawn from bounded sets: _judge_severity, _calculate_uniqueness,        *)
(* _score_and_rank_critiques and, on its result as reward_node does,       *)
(* _format_filtered_critiques(scored, top_k=3)                             *)

\* values of parsed.get("severity", 1) in the severity judge's JSON object:
\* an int, a float (fixed point), no such key, or a text that is no number
IntAnswer(n) == [type |-> "int", val |-> n]

SeverityAnswers ==
    {IntAnswer(n) : n \in {-1, 0, 1, 2, 3, 4, 7}}
        \cup {[type |-> "float", val |-> 25], [type |-> "missing", val |-> 0],
              [type |-> "text", val |-> 0]}

\* int(parsed.get("severity", 1)): an int is kept, a float is truncated, a
\* missing key reads 1, int() of a text that is no number raises ValueError
SeverityInt(ans) ==
    CASE ans.type = "int" -> [raised |-> FALSE, val |-> ans.val]
      [] ans.type = "float" -> [raised |-> FALSE, val |-> ans.val \div ScoreScale]
      [] ans.type = "missing" -> [raised |-> FALSE, val |-> 1]
      [] OTHER -> [raised |-> TRUE, val |-> 0]

\* _judge_severity on the judge's answer
judge_severity_of(ans) ==
    [raised |-> SeverityInt(ans).raised,
     severity |-> IF SeverityInt(ans).raised THEN 0
                  ELSE judge_severity(SeverityInt(ans).val)]

\* persona lists of the drawn rounds
RankPersonas == <<"p1", "p2", "p3">>

DigestPersonas == <<"p1", "p2", "p3", "p4", "p5">>

\* a persona that found no issue: no judge is asked, the answers are unread
Unjudged ==
    [issue |-> NULL, answer |-> IntAnswer(1), outcome |-> [ok |-> TRUE, val |-> ScoreScale]]

\* what one persona and its judges return in a round
CritiqueCases(issues, answers, outcomes) ==
    {Unjudged} \cup [issue : issues, answer : answers, outcome : outcomes]

\* rounds of three personas with the judges' answers varied, and rounds of
\* five personas that raise the same issue
RankCases ==
    CritiqueCases({"X", "Y"},
                  {IntAnswer(0), IntAnswer(2), IntAnswer(3), IntAnswer(7),
                   [type |-> "text", val |-> 0]},
                  {[ok |-> TRUE, val |-> 1], [ok |-> TRUE, val |-> 15],
                   [ok |-> FALSE, val |-> 0]})

DigestCases ==
    CritiqueCases({"X"}, {IntAnswer(0), IntAnswer(2)},
                  {[ok |-> TRUE, val |-> 1], [ok |-> TRUE, val |-> 15]})

CritiqueInputs ==
    {[kind |-> "critiques", personas |-> RankPersonas, cases |-> c] :
        c \in [Range(RankPersonas) -> RankCases]}
    \cup
    {[kind |-> "critiques", personas |-> DigestPersonas, cases |-> c] :
        c \in [Range(DigestPersonas) -> DigestCases]}

SeverityInputs == {[kind |-> "severity", answer |-> a] : a \in SeverityAnswers}

UniquenessInputs ==
    [ kind : {"uniqueness"},
      issue : {"", "X", "x", "Y"},
      others : SeqsUpTo({"X", "Y"}, 2),
      outcome : {[ok |-> TRUE, val |-> v] : v \in {-5, 5, 15}}
                    \cup {[ok |-> FALSE, val |-> 0]} ]

\* student_responses of a drawn round
ResponsesOf(in) ==
    [p \in Range(in.personas) |->
        [persona |-> p, issue |-> in.cases[p].issue,
         quote |-> IF in.cases[p].issue = NULL THEN NULL ELSE "quote"]]

\* _score_and_rank_critiques on a drawn round: it raises when
\* _judge_severity raises for a persona with an issue
rank_call(in) ==
    LET P == in.personas
        responses == ResponsesOf(in)
        conv == [p \in Range(P) |-> SeverityInt(in.cases[p].answer)]
        rawSev == [p \in Range(P) |-> conv[p].val]
        uniqOut == [p \in Range(P) |-> in.cases[p].outcome]
    IN  IF \E p \in Range(P) : responses[p].issue # NULL /\ conv[p].raised
        THEN [kind |-> "score_and_rank", raised |-> TRUE, scored |-> <<>>,
              severity_calls |-> {}, uniqueness_calls |-> {}]
        ELSE [kind |-> "score_and_rank", raised |-> FALSE,
              scored |-> score_and_rank_critiques(responses, P, rawSev, uniqOut),
              severity_calls |-> JudgeCalls(responses, P, rawSev, uniqOut).severity,
              uniqueness_calls |-> JudgeCalls(responses, P, rawSev, uniqOut).uniqueness]

InitRank ==
    /\ RunStart
    /\ profiles = TRUE
    /\ gpqa_question = "question"
    /\ gpqa_quiz = <<>>
    /\ max_iters = DefaultMaxIterations
    /\ stagnation_window = DefaultStagnationWindow
    /\ \/ sd_in \in CritiqueInputs
       \/ sd_in \in SeverityInputs
       \/ sd_in \in UniquenessInputs
    /\ sd_out = NoCall

\* _judge_severity(issue, explanation, quote) with the judge's answer
CallJudgeSeverity ==
    /\ sd_out = NoCall
    /\ sd_in.kind = "severity"
    /\ sd_out' = [kind |-> "judge_severity",
                  raised |-> judge_severity_of(sd_in.answer).raised,
                  severity |-> judge_severity_of(sd_in.answer).severity]
    /\ UNCHANGED <<runVars, sd_in>>

\* _calculate_uniqueness(issue, other_issues) with the judge's outcome
CallCalculateUniqueness ==
    /\ sd_out = NoCall
    /\ sd_in.kind = "uniqueness"
    /\ sd_out' = [kind |-> "calculate_uniqueness",
                  judged |-> uniqueness_judged(sd_in.issue, sd_in.others),
                  uniqueness |-> calculate_uniqueness(sd_in.issue, sd_in.others,
                                                      sd_in.outcome)]
    /\ UNCHANGED <<runVars, sd_in>>

\* scored = _score_and_rank_critiques(responses, question, explanation)
CallScoreAndRank ==
    /\ sd_out = NoCall
    /\ sd_in.kind = "critiques"
    /\ sd_out' = rank_call(sd_in)
    /\ UNCHANGED <<runVars, sd_in>>

\* filtered_critiques = _format_filtered_critiques(scored, top_k=3)
CallFormatFiltered ==
    /\ sd_out.kind = "score_and_rank"
    /\ ~sd_out.raised
    /\ sd_out' = [kind |-> "format_filtered", scored |-> sd_out.scored,
                  digest |-> format_filtered_critiques(sd_out.scored, TopK)]
    /\ UNCHANGED <<runVars, sd_in>>

NextRank ==
    \/ CallJudgeSeverity
    \/ CallCalculateUniqueness
    \/ CallScoreAndRank
    \/ CallFormatFiltered

SpecRank == InitRank /\ [][NextRank]_vars

----------------------------------------------------------------------------
(* Properties of the graph and of the iteration counter *)

\* the stopper has just run: its decision is the newest update of the state
JustDecided == visits["stopper"] >= 1 /\ pc \in {"teacher", "single answer"}

\* number of times node n was started
Started(n) == visits[n] + (IF raised = n THEN 1 ELSE 0)

\* the edges of the graph, the conditional edge taken on the new decision
Edge(from, to, d) ==
    \/ from = "teacher" /\ to = "student critiques"
    \/ from = "student critiques" /\ to = "reward"
    \/ from = "reward" /\ to = "stopper"
    \/ from = "stopper" /\ to = "teacher" /\ d = "CONTINUE"
    \/ from = "stopper" /\ to = "single answer" /\ d = "STOP"
    \/ from = "single answer" /\ to = "grading"
    \/ from = "grading" /\ to = "END"

\* C1: a run starts at teacher, and every step of it runs the node pc and
\* moves along an edge teacher -> student critiques -> reward -> stopper,
\* stopper -> teacher on CONTINUE, stopper -> single answer on STOP,
\* single answer -> grading -> END, unless the node raises and ends the run
C1_FixedOrder ==
    /\ pc = "teacher"
    /\ [][ /\ pc \in Nodes
           /\ \/ pc' = "RAISED" /\ raised' = pc
              \/ Edge(pc, pc', decision') /\ visits'[pc] = visits[pc] + 1 ]_vars

\* a second round was entered on CONTINUE and then left on STOP
C1_Witness ==
    /\ pc = "single answer"
    /\ visits["teacher"] = 2
    /\ visits["stopper"] = 2
    /\ decision = "STOP"

\* C2: once decision is STOP no teacher, student, reward or stopper step
\* runs; single answer and then grading run, once each, and END is reached
\* only after both, after which nothing runs
C2_StopIsFinal ==
    [][ decision = "STOP" =>
          /\ \A n \in LoopNodes : visits'[n] = visits[n] /\ raised' # n
          /\ \/ pc = "single answer" /\ pc' \in {"grading", "RAISED"}
             \/ pc = "grading" /\ pc' \in {"END", "RAISED"}
          /\ visits'["single answer"] + (IF raised' = "single answer" THEN 1 ELSE 0) = 1
          /\ visits'["grading"] + (IF raised' = "grading" THEN 1 ELSE 0) <= 1
          /\ (pc' = "END" => visits'["single answer"] = 1 /\ visits'["grading"] = 1) ]_vars

\* a run that stopped went through single answer and grading to END
C2_Witness ==
    /\ pc = "END"
    /\ decision = "STOP"
    /\ visits["single answer"] = 1
    /\ visits["grading"] = 1
    /\ visits["teacher"] >= 2

\* C3: for max_iters >= 1 the loop terminates: the stopper answers STOP
\* whenever iteration >= max_iters, so the teacher and every other node of
\* the cycle is started at most max_iters times: a run whose nodes all
\* return makes at most 4 * max_iters steps inside the cycle and then
\* leaves it
C3_Terminates ==
    max_iters >= 1 =>
        /\ \A n \in LoopNodes : Started(n) <= max_iters
        /\ (JustDecided /\ iteration >= max_iters => decision = "STOP" /\ pc = "single answer")

\* the cap ended a run whose last round still had a score of 3
C3_Witness ==
    /\ pc = "single answer"
    /\ max_iters >= 2
    /\ visits["teacher"] = max_iters
    /\ reason = MaxReason
    /\ HasThree(reward_scores, CommonPERSONAS(profiles))

\* C4: iteration is 0 at entry, a returning teacher adds exactly 1, no other
\* step changes it, and the nodes after teacher see the number of the round
C4_IterationCounts ==
    /\ iteration = 0
    /\ [][ iteration' = IF pc = "teacher" /\ pc' = "student critiques"
                        THEN iteration + 1 ELSE iteration ]_vars
    /\ [](pc \in {"student critiques", "reward", "stopper"} =>
              iteration = Started("teacher"))
    /\ [](iteration = visits["teacher"])

\* the stopper of the third round sees iteration 3
C4_Witness ==
    /\ pc = "stopper"
    /\ visits["teacher"] = 3
    /\ iteration = 3

\* C5 as stated: the length of history is the number of completed rounds
\* (rounds whose reward step returned) in every state
C5_Original == Len(history) = visits["reward"]

\* C5 amended: history holds one snapshot per round whose reward step
\* returned, and after a grading step that returned one quiz entry more
C5_HistoryLength ==
    /\ Len(history) = visits["reward"] + visits["grading"]
    /\ Len(HistoryScores(history)) = visits["reward"]
    /\ visits["grading"] <= 1

\* two rounds were completed and grading has appended its entry
C5_Witness ==
    /\ pc = "END"
    /\ visits["reward"] = 2
    /\ Len(history) = 3

----------------------------------------------------------------------------
(* Properties of the stopping policy *)

\* C6: a direct call of stopping_decision with iteration >= max_iterations
\* returns STOP with the max-iterations reason, whatever the scores and the
\* score history are
C6_CapAlwaysStops ==
    sd_out.kind = "stopping_decision" /\ sd_in.iteration >= sd_in.max_iterations =>
        sd_out.decision = "STOP" /\ sd_out.reason = MaxReason

\* the cap stopped a call whose scores hold a 3 and are not all 1
C6_Witness ==
    /\ sd_out.kind = "stopping_decision"
    /\ sd_in.iteration >= sd_in.max_iterations
    /\ sd_in.max_iterations >= 1
    /\ HasThree(sd_in.scores, CallPersonas)
    /\ sd_out.decision = "STOP"

\* C7 as stated: whenever iteration >= max_iterations the result of the
\* stopper is STOP with the max-iterations reason, also when every
\* persona's feedback is empty
C7_Original ==
    JustDecided /\ iteration >= max_iters =>
        decision = "STOP" /\ reason = MaxReason

\* C7 amended: stopper_node tests empty feedback first and the cap second;
\* whenever iteration >= max_iterations the result is STOP, with the
\* empty-feedback reason when every persona's feedback is empty and with
\* the max-iterations reason otherwise, whatever the scores are
C7_CapAfterEmpty ==
    JustDecided /\ iteration >= max_iters =>
        /\ decision = "STOP"
        /\ reason = IF AllEmpty(student_responses, CommonPERSONAS(profiles))
                    THEN EmptyReason ELSE MaxReason

\* the cap was reached in a round whose feedback is empty for the stopper
C7_Witness ==
    /\ JustDecided
    /\ iteration >= max_iters
    /\ max_iters >= 1
    /\ AllEmpty(student_responses, CommonPERSONAS(profiles))
    /\ reason = EmptyReason

\* C8: stopper_node called with empty feedback of every persona returns
\* STOP with the empty-feedback reason, whatever the scores, the history
\* and the iteration are
C8_EmptyFeedbackStops ==
    sd_out.kind = "stopper_node" /\ AllEmpty(sd_in.responses, CallPersonas) =>
        sd_out.decision = "STOP" /\ sd_out.reason = EmptyReason

\* empty feedback stopped a call that the all-scores-1 rule would have
\* stopped with another reason
C8_Witness ==
    /\ sd_out.kind = "stopper_node"
    /\ AllEmpty(sd_in.responses, CallPersonas)
    /\ sd_in.iteration < sd_in.max_iterations
    /\ AllOnes(sd_in.scores, CallPersonas)
    /\ sd_out.reason = EmptyReason

\* the score maps of the rounds on record, the current round last
RoundScores == HistoryScores(history)

\* the stopper has just returned the result of stopping_decision for a
\* round below the cap
DecidedBelowCap ==
    /\ JustDecided
    /\ ~AllEmpty(student_responses, CommonPERSONAS(profiles))
    /\ iteration < max_iters

\* no persona scored 3 in rounds from..to
NoThreeIn(from, to) ==
    \A k \in from..to : ~HasThree(RoundScores[k], CommonPERSONAS(profiles))

\* C9 as stated: below the cap the result is the stagnation STOP exactly
\* when the all-scores-1 rule did not match, no persona scored 3 in the
\* current round and none did in the stagnation_window rounds before it,
\* that many earlier rounds being on record
C9_Original ==
    DecidedBelowCap =>
        ( reason = StagnationReason(stagnation_window)
          <=> /\ ~AllOnes(reward_scores, CommonPERSONAS(profiles))
              /\ ~HasThree(reward_scores, CommonPERSONAS(profiles))
              /\ Len(RoundScores) - 1 >= stagnation_window
              /\ NoThreeIn(Len(RoundScores) - stagnation_window, Len(RoundScores) - 1) )

\* C9 amended: the history stopper_node hands over ends with the current
\* round, so the window is the current round and the stagnation_window - 1
\* rounds before it
C9_StagnationWindow ==
    DecidedBelowCap =>
        /\ Len(RoundScores) = iteration
        /\ RoundScores[iteration] = reward_scores
        /\ ( reason = StagnationReason(stagnation_window)
             <=> /\ ~AllOnes(reward_scores, CommonPERSONAS(profiles))
                 /\ stagnation_window > 0
                 /\ iteration >= stagnation_window
                 /\ NoThreeIn(iteration - stagnation_window + 1, iteration) )

\* stagnation stopped round 2 with a single earlier round on record
C9_Witness ==
    /\ DecidedBelowCap
    /\ iteration = 2
    /\ stagnation_window = 2
    /\ decision = "STOP"
    /\ reason = StagnationReason(stagnation_window)

\* C10: a direct call of stopping_decision does not return the stagnation
\* STOP when a persona scored 3 in the current round, nor when the history
\* passed holds fewer than stagnation_window rounds
C10_NoEarlyStagnation ==
    ( /\ sd_out.kind = "stopping_decision"
      /\ \/ HasThree(sd_in.scores, CallPersonas)
         \/ Len(HistoryScores(sd_in.history)) < sd_in.stagnation_window )
    => sd_out.reason # StagnationReason(sd_in.stagnation_window)

\* a 3 in the current round kept a call from the stagnation STOP although
\* a full window of rounds without a 3 was on record
C10_Witness ==
    /\ sd_out.kind = "stopping_decision"
    /\ sd_in.iteration < sd_in.max_iterations
    /\ HasThree(sd_in.scores, CallPersonas)
    /\ sd_in.stagnation_window = 2
    /\ Len(HistoryScores(sd_in.history)) = 2
    /\ \A k \in 1..2 : ~HasThree(HistoryScores(sd_in.history)[k], CallPersonas)
    /\ sd_out.decision = "CONTINUE"

\* C12: a direct call of stopping_decision with iteration below
\* max_iterations and every persona's score equal to 1 on the integer
\* scale returns STOP with the no-actionable-feedback reason, also when the
\* stagnation rule matches the same arguments
C12_AllOnesStops ==
    ( /\ sd_out.kind = "stopping_decision"
      /\ sd_in.iteration < sd_in.max_iterations
      /\ \A p \in Range(CallPersonas) : sd_in.scores[p] \div ScoreScale = 1 )
    => sd_out.decision = "STOP" /\ sd_out.reason = AllOnesReason

\* scores all 1 were stopped for no actionable feedback although a full
\* window of rounds without a 3 was on record
C12_Witness ==
    /\ sd_out.kind = "stopping_decision"
    /\ sd_in.iteration < sd_in.max_iterations
    /\ \A p \in Range(CallPersonas) : sd_in.scores[p] \div ScoreScale = 1
    /\ sd_in.stagnation_window = 2
    /\ Len(HistoryScores(sd_in.history)) = 2
    /\ \A k \in 1..2 : ~HasThree(HistoryScores(sd_in.history)[k], CallPersonas)
    /\ sd_out.reason = AllOnesReason

\* round k of the run holds a critique whose judge-validated severity is 3
SevereIn(k) ==
    \E i \in 1..Len(history[k].critique_rankings) :
        history[k].critique_rankings[i].validated_severity = 3

\* C13: for a persona list shared by the reward node and the stopper, a
\* stagnation STOP is issued only when no round of the stagnation window,
\* the current round included, holds a critique whose validated severity
\* is 3: a round with such a critique counts as a round with a 3 whatever
\* uniqueness bonus the critique received
C13_SeverityThreeCounts ==
    profiles /\ JustDecided /\ reason = StagnationReason(stagnation_window) =>
        \A k \in (iteration - stagnation_window + 1)..iteration : ~SevereIn(k)

----------------------------------------------------------------------------
(* The end-to-end scenario of the stopping policy *)

\* round-1 scores {A: 3, B: 1, C: 1}
ScenarioFirst == [p \in Range(ScenarioPersonas) |-> IF p = "A" THEN 30 ELSE 10]

\* scores that are all v
ScenarioAll(v) == [p \in Range(ScenarioPersonas) |-> v]

\* the run has the scenario's scores in its first k rounds, v in rounds 2..
ScenarioRun(k, v) ==
    /\ Len(RoundScores) >= k
    /\ RoundScores[1] = ScenarioFirst
    /\ \A j \in 2..k : RoundScores[j] = ScenarioAll(v)

\* the stopper has decided round k
ScenarioDecided(k) == iteration = k /\ pc \in {"teacher", "single answer"}

\* C11 as stated: with 3 personas, stagnation_window 2 and max_iterations
\* 5, the run with round-1 scores {A:3, B:1, C:1} and all scores 1 in
\* rounds 2 and 3 decides CONTINUE at round 1, CONTINUE at round 2 and
\* STOP with the stagnation reason at round 3
C11_Original ==
    /\ (ScenarioDecided(1) /\ ScenarioRun(1, 10) => decision = "CONTINUE")
    /\ (ScenarioDecided(2) /\ ScenarioRun(2, 10) => decision = "CONTINUE")
    /\ (ScenarioDecided(3) /\ ScenarioRun(3, 10) =>
            decision = "STOP" /\ reason = StagnationReason(stagnation_window))

\* C11 amended: the run decides CONTINUE at round 1 and STOP at round 2
\* with the no-actionable-feedback reason, the all-1 rule being tested
\* before the stagnation rule, so it has no round 3; the run whose scores
\* in rounds 2 and 3 are all 2 decides CONTINUE at rounds 1 and 2 and STOP
\* with the stagnation reason at round 3
C11_ScenarioStops ==
    /\ (ScenarioDecided(1) /\ ScenarioRun(1, 10) =>
            decision = "CONTINUE" /\ reason = ContinueReason)
    /\ (ScenarioRun(2, 10) =>
            /\ iteration = 2
            /\ pc \in {"stopper", "single answer"}
            /\ (pc = "single answer" => decision = "STOP" /\ reason = AllOnesReason))
    /\ (ScenarioDecided(2) /\ ScenarioRun(2, 20) =>
            decision = "CONTINUE" /\ reason = ContinueReason)
    /\ (ScenarioDecided(3) /\ ScenarioRun(3, 20) =>
            decision = "STOP" /\ reason = StagnationReason(stagnation_window))

\* the scenario's run was stopped at round 2 by the all-1 rule
C11_Witness ==
    /\ ScenarioDecided(2)
    /\ ScenarioRun(2, 10)
    /\ decision = "STOP"
    /\ reason = AllOnesReason

----------------------------------------------------------------------------
(* Properties of the critique scoring *)

\* _score_and_rank_critiques has returned the ranking of the drawn round
Ranked == sd_out.kind = "score_and_rank" /\ ~sd_out.raised

\* the personas of the drawn round with an issue
WithIssue == {p \in Range(sd_in.personas) : sd_in.cases[p].issue # NULL}

\* C14: in the ranking returned for a round every persona whose issue is
\* null has score 0, validated_severity 0 and uniqueness 0 and neither the
\* severity judge nor the uniqueness judge was called for it, and the
\* severity judge was called once for each persona with an issue
C14_NullIssueUnjudged ==
    Ranked =>
        /\ \A i \in 1..Len(sd_out.scored) :
              sd_out.scored[i].persona \notin WithIssue =>
                  /\ sd_out.scored[i].score = 0
                  /\ sd_out.scored[i].validated_severity = 0
                  /\ sd_out.scored[i].uniqueness = 0
                  /\ sd_out.scored[i].persona \notin sd_out.severity_calls
                  /\ sd_out.scored[i].persona \notin sd_out.uniqueness_calls
        /\ sd_out.severity_calls = WithIssue
        /\ Cardinality(sd_out.severity_calls) = Cardinality(WithIssue)

\* a round with one null issue and two judged issues
C14_Witness ==
    /\ Ranked
    /\ sd_in.personas = RankPersonas
    /\ sd_in.cases["p2"].issue = NULL
    /\ Cardinality(sd_out.severity_calls) = 2
    /\ Cardinality(sd_out.uniqueness_calls) = 2

\* C15: every entry of a returned ranking has score = validated_severity +
\* 3.0 * uniqueness with validated_severity in 0..3, uniqueness in [0, 1]
\* and uniqueness_bonus = 3.0 * uniqueness in [0, 3], so 0 <= score <= 6
C15_ScoreFormula ==
    Ranked =>
        \A i \in 1..Len(sd_out.scored) :
            LET e == sd_out.scored[i]
            IN  /\ e.score = e.validated_severity * ScoreScale + 3 * e.uniqueness
                /\ e.validated_severity \in {0, 1, 2, 3}
                /\ 0 <= e.uniqueness /\ e.uniqueness <= ScoreScale
                /\ e.uniqueness_bonus = 3 * e.uniqueness
                /\ 0 <= e.uniqueness_bonus /\ e.uniqueness_bonus <= 3 * ScoreScale
                /\ 0 <= e.score /\ e.score <= 6 * ScoreScale

\* the largest score: severity 3 and a uniqueness answer above 1.0
C15_Witness ==
    /\ Ranked
    /\ \E i \in 1..Len(sd_out.scored) :
          LET e == sd_out.scored[i]
          IN  /\ sd_in.cases[e.persona].outcome = [ok |-> TRUE, val |-> 15]
              /\ Cardinality(WithIssue) >= 2
              /\ e.score = 6 * ScoreScale

\* position of persona p in the input map
InputIndex(p) == CHOOSE k \in 1..Len(sd_in.personas) : sd_in.personas[k] = p

\* C16: a returned ranking holds every persona of the input exactly once,
\* the rank of an entry is its position, scores do not increase along the
\* ranking and entries of equal score are in the order of the input map
C16_StableRanking ==
    Ranked =>
        /\ Len(sd_out.scored) = Len(sd_in.personas)
        /\ {sd_out.scored[i].persona : i \in 1..Len(sd_out.scored)} = Range(sd_in.personas)
        /\ \A i \in 1..Len(sd_out.scored) : sd_out.scored[i].rank = i
        /\ \A i, j \in 1..Len(sd_out.scored) :
              i < j =>
                  /\ sd_out.scored[i].score >= sd_out.scored[j].score
                  /\ ( sd_out.scored[i].score = sd_out.scored[j].score =>
                          InputIndex(sd_out.scored[i].persona)
                              < InputIndex(sd_out.scored[j].persona) )

\* the last persona of the input is ranked first, the other two are tied
C16_Witness ==
    /\ Ranked
    /\ sd_in.personas = RankPersonas
    /\ sd_out.scored[1].persona = "p3"
    /\ sd_out.scored[2].persona = "p1"
    /\ sd_out.scored[2].score = sd_out.scored[3].score
    /\ sd_out.scored[3].score > 0

\* positions of the ranking whose entry has validated_severity > 0
Qualifying == {i \in 1..Len(sd_out.scored) : sd_out.scored[i].validated_severity > 0}

\* the round of the example: p1 and p2 raise X, judged 2 with uniqueness
\* 0.1, p3 finds no issue
ExampleCases ==
    [p \in Range(RankPersonas) |->
        IF p = "p3" THEN Unjudged
        ELSE [issue |-> "X", answer |-> IntAnswer(2), outcome |-> [ok |-> TRUE, val |-> 1]]]

\* C17: the digest is the sentinel text when no entry of the ranking has
\* validated_severity > 0; otherwise it lists, in rank order, the first 3
\* of the entries with validated_severity > 0 and nothing else; the round
\* of the example gives the two entries of p1 and p2, scored 2.3
C17_DigestTopK ==
    sd_out.kind = "format_filtered" =>
        LET d == sd_out.digest
        IN  /\ Qualifying = {} => d.text = SentinelDigest /\ d.items = <<>>
            /\ Qualifying # {} =>
                  /\ d.text = DigestHeader
                  /\ Len(d.items) = Min(3, Cardinality(Qualifying))
                  /\ \A n \in 1..Len(d.items) :
                        \E i \in Qualifying :
                            /\ Cardinality({j \in Qualifying : j < i}) = n - 1
                            /\ d.items[n].persona = sd_out.scored[i].persona
                            /\ d.items[n].rank = i
                            /\ d.items[n].score = sd_out.scored[i].score
            /\ ( sd_in.personas = RankPersonas /\ sd_in.cases = ExampleCases =>
                    /\ Len(d.items) = 2
                    /\ d.items[1].persona = "p1" /\ d.items[1].score = 23
                    /\ d.items[2].persona = "p2" /\ d.items[2].score = 23 )

\* four entries qualify and the digest lists the first three, one of them
\* ranked below an entry that does not qualify
C17_Witness ==
    /\ sd_out.kind = "format_filtered"
    /\ Cardinality(Qualifying) >= 4
    /\ Len(sd_out.digest.items) = 3
    /\ sd_out.digest.items[3].rank > 3

----------------------------------------------------------------------------
(* Feedback handed to the teacher, and failures of the judges *)

\* the teacher has just built the prompt of round k
Prompted(k) == pc = "student critiques" /\ iteration = k /\ raised = "none"

\* C18: the prompt of the first teacher visit carries no feedback, and the
\* prompt of every later visit carries the digest that the reward node
\* produced in the round before: the entries filtered_critiques lists are
\* the feedback of the prompt
C18_TeacherGetsDigest ==
    /\ (Prompted(1) => fb_text = NoText)
    /\ \A k \in 2..MaxItersBound :
          Prompted(k) =>
              /\ history[k - 1].filtered_critiques = filtered_critiques
              /\ Len(fb_text.items) = Len(filtered_critiques.items)

\* the answer is one of the integers 0, 1, 2, 3
ValidSeverity(ans) == ans.type = "int" /\ ans.val \in {0, 1, 2, 3}

\* C19: _judge_severity returns whatever value the judge answered: a valid
\* severity is kept, any other answer gives severity 1, the severity
\* returned is in 0..3, and no ranking of a round is aborted
C19_SeverityNeverAborts ==
    /\ sd_out.kind = "judge_severity" =>
          /\ ~sd_out.raised
          /\ sd_out.severity \in {0, 1, 2, 3}
          /\ sd_out.severity = IF ValidSeverity(sd_in.answer) THEN sd_in.answer.val ELSE 1
    /\ sd_out.kind = "score_and_rank" => ~sd_out.raised

\* C20: when the uniqueness judging call fails, _calculate_uniqueness
\* returns 1 - max(similarity of the issue to each other issue), a value
\* in [0, 1], and the ranking of a round in which the call fails is
\* returned with that value in the entry, unless the severity judge's
\* answer made _judge_severity raise
C20_FallbackUniqueness ==
    /\ ( sd_out.kind = "calculate_uniqueness" /\ sd_out.judged /\ ~sd_in.outcome.ok =>
            /\ \E k \in 1..Len(sd_in.others) :
                  /\ sd_out.uniqueness = ScoreScale - Similarity(sd_in.issue, sd_in.others[k])
                  /\ \A m \in 1..Len(sd_in.others) :
                        Similarity(sd_in.issue, sd_in.others[m])
                            <= Similarity(sd_in.issue, sd_in.others[k])
            /\ 0 <= sd_out.uniqueness /\ sd_out.uniqueness <= ScoreScale )
    /\ ( sd_out.kind = "score_and_rank" =>
            /\ sd_out.raised =>
                  \E p \in WithIssue : SeverityInt(sd_in.cases[p].answer).raised
            /\ \A i \in 1..Len(sd_out.scored) :
                  LET p == sd_out.scored[i].persona
                  IN  p \in sd_out.uniqueness_calls /\ ~sd_in.cases[p].outcome.ok =>
                          sd_out.scored[i].uniqueness =
                              IF \E q \in WithIssue \ {p} :
                                     sd_in.cases[q].issue = sd_in.cases[p].issue
                              THEN 0 ELSE ScoreScale )

\* the judging call failed for an issue that differs from one other issue
\* in case only and from the other altogether: uniqueness 0.0
C20_Witness ==
    /\ sd_out.kind = "calculate_uniqueness"
    /\ ~sd_in.outcome.ok
    /\ sd_in.issue = "x"
    /\ sd_in.others = <<"Y", "X">>
    /\ sd_out.uniqueness = 0

----------------------------------------------------------------------------
(* The rule comment of stopping_decision *)

\* a direct call of stopping_decision below the cap with a persona whose
\* score is 2 or more on the integer scale
CalledWithTwo ==
    /\ sd_out.kind = "stopping_decision"
    /\ sd_in.iteration < sd_in.max_iterations
    /\ \E p \in Range(CallPersonas) : sd_in.scores[p] \div ScoreScale >= 2

\* no persona scored 3 in the current scores nor in the last w rounds of
\* the history passed, which holds at least w >= 1 rounds
CalledWithoutThree ==
    LET hs == HistoryScores(sd_in.history)
        w == sd_in.stagnation_window
    IN  /\ ~HasThree(sd_in.scores, CallPersonas)
        /\ w >= 1
        /\ Len(hs) >= w
        /\ \A k \in (Len(hs) - w + 1)..Len(hs) : ~HasThree(hs[k], CallPersonas)

----------------------------------------------------------------------------
(* The two persona lists *)

\* C28: every response the students node stores is a non-empty object, and
\* the stopper reads a persona of its own list without a key in
\* student_responses as empty feedback; hence when the stopper's list
\* shares no name with the students' list the stopper returns STOP with
\* the empty-feedback reason at the end of round 1 and no node of the loop
\* is started a second time
C28_DisjointListsStop ==
    /\ \A p \in DOMAIN student_responses : DOMAIN student_responses[p] # {}
    /\ ( ~profiles =>
           /\ \A i \in 1..Len(CommonPERSONAS(profiles)) :
                 CommonPERSONAS(profiles)[i] \notin DOMAIN student_responses
           /\ AllEmpty(student_responses, CommonPERSONAS(profiles))
           /\ (JustDecided => /\ decision = "STOP"
                              /\ reason = EmptyReason
                              /\ pc = "single answer"
                              /\ iteration = 1)
           /\ \A n \in LoopNodes : Started(n) <= 1 )

\* with the default lists round 1 was stopped for empty feedback although
\* a student raised an issue, a cap of 3 rounds allowed more rounds and the
\* round's scores are not all 1
C28_Witness ==
    /\ ~profiles
    /\ JustDecided
    /\ max_iters = 3
    /\ reason = EmptyReason
    /\ \E p \in DOMAIN student_responses : student_responses[p].issue # NULL
    /\ \E p \in DOMAIN reward_scores : reward_scores[p] >= 3 * ScoreScale

\* the stopper is about to run or has just run in the round numbered
\* iteration
AtStopper == pc = "stopper" \/ JustDecided

\* C29: when stopper_node runs in round n, history has n entries, the last
\* one is the snapshot of round n and holds the state's reward_scores; the
\* window stopping_decision reads from it is the scores of rounds
\* n - stagnation_window + 1 .. n, the current round last; entries without
\* a non-empty reward_scores map are left out of the list the window is
\* taken from
C29_CurrentRoundInWindow ==
    /\ Len(HistoryScores(history)) =
           Cardinality({k \in 1..Len(history) : HasScores(history[k])})
    /\ ( AtStopper /\ iteration >= 1 =>
           /\ Len(history) = iteration
           /\ HasScores(history[iteration])
           /\ history[iteration].iteration = iteration
           /\ history[iteration].reward_scores = reward_scores
           /\ LET recent == StagnationRecent(HistoryScores(history), stagnation_window)
              IN  iteration >= stagnation_window =>
                     /\ Len(recent) = stagnation_window
                     /\ \A k \in 1..stagnation_window :
                           recent[k] =
                               history[iteration - stagnation_window + k].reward_scores )

\* the stopper of round 2 read a window of two rounds whose first round
\* holds a 3 and whose last round, the current one, holds none
C29_Witness ==
    /\ JustDecided
    /\ iteration = 2
    /\ stagnation_window = 2
    /\ HasThree(history[1].reward_scores, CommonPERSONAS(profiles))
    /\ ~HasThree(reward_scores, CommonPERSONAS(profiles))
    /\ decision = "CONTINUE"

----------------------------------------------------------------------------
(* Grading without a quiz *)

\* C30: no step writes gpqa_quiz; when the state holds no non-empty
\* gpqa_quiz list, as after create_initial_state, grading_node raises and
\* leaves quiz_results and history as they were, so a run that reaches
\* grading after STOP ends in that error, never reaches END and never
\* holds quiz_results
C30_GradingNeedsQuiz ==
    /\ [][gpqa_quiz' = gpqa_quiz]_vars
    /\ [][ pc = "grading" /\ gpqa_quiz = <<>> =>
              /\ pc' = "RAISED"
              /\ raised' = "grading"
              /\ quiz_results' = quiz_results
              /\ history' = history ]_vars
    /\ [](gpqa_quiz = <<>> => /\ quiz_results = ""
                              /\ pc # "END"
                              /\ visits["grading"] = 0
                              /\ Len(history) = visits["reward"])

\* a run without a quiz was stopped in its second round, answered the
\* question and ended in the error of the grading node
C30_Witness ==
    /\ gpqa_quiz = <<>>
    /\ pc = "RAISED"
    /\ raised = "grading"
    /\ decision = "STOP"
    /\ visits["teacher"] = 2
    /\ visits["single answer"] = 1
    /\ single_answer # ""
    /\ quiz_results = ""

----------------------------------------------------------------------------
(* The logs of a run: history and student_score_history *)

\* the reward node returns in this step
RewardReturns == pc = "reward" /\ pc' = "stopper"

\* list new extends list old by exactly n entries at its end
ExtendsBy(old, new, n) ==
    /\ Len(new) = Len(old) + n
    /\ \A k \in 1..Len(old) : new[k] = old[k]

\* C21: history and student_score_history are append-only: a reward step
\* that returns appends exactly one snapshot to history and exactly one
\* entry to the score-history list of every persona, every other step
\* leaves the score history alone and appends nothing to history before
\* grading, and every snapshot and entry written earlier stays unchanged
\* and in place
C21_LogsAppendOnly ==
    [][ /\ DOMAIN student_score_history \subseteq DOMAIN student_score_history'
        /\ IF RewardReturns
           THEN /\ ExtendsBy(history, history', 1)
                /\ history'[Len(history')].iteration = iteration
                /\ HasScores(history'[Len(history')])
                /\ DOMAIN student_score_history' = Range(ConfigPERSONAS(profiles))
                /\ \A p \in Range(ConfigPERSONAS(profiles)) :
                      /\ ExtendsBy(Get(student_score_history, p, <<>>),
                                   student_score_history'[p], 1)
                      /\ LET e == student_score_history'[p][Len(student_score_history'[p])]
                         IN  /\ e.iteration = iteration
                             /\ e.score = reward_scores'[p]
           ELSE /\ student_score_history' = student_score_history
                /\ ExtendsBy(history, history', IF pc = "grading" /\ pc' = "END" THEN 1 ELSE 0)
      ]_vars

\* the reward step of round 2 has appended a second entry, with another
\* score, to the list of a persona and a second snapshot to history
C21_Witness ==
    /\ pc = "stopper"
    /\ visits["reward"] = 2
    /\ Len(history) = 2
    /\ \E p \in DOMAIN student_score_history :
          /\ Len(student_score_history[p]) = 2
          /\ student_score_history[p][1].iteration = 1
          /\ student_score_history[p][2].iteration = 2
          /\ student_score_history[p][1].score # student_score_history[p][2].score
          /\ student_score_history[p][1].score = history[1].reward_scores[p]

\* the entries of every persona's score-history list number n and belong
\* to rounds 1..n
ScoreHistoryRounds(n) ==
    \A p \in DOMAIN student_score_history :
        /\ Len(student_score_history[p]) = n
        /\ \A k \in 1..n : student_score_history[p][k].iteration = k

\* the snapshots of history number n and belong to rounds 1..n
HistoryRounds(n) ==
    /\ Len(history) = n
    /\ \A k \in 1..n : history[k].iteration = k /\ HasScores(history[k])

\* C22: a round is atomic with respect to the logs: a step of the loop
\* that fails (the teacher call, a persona's critique call, a severity-judge
\* call) writes nothing to history and to the score history, and the run
\* it ends holds the snapshots and entries of the earlier rounds only,
\* none of the round that failed
C22_RoundAtomic ==
    /\ [][ pc' = "RAISED" =>
              /\ pc \in Nodes
              /\ raised' = pc
              /\ history' = history
              /\ student_score_history' = student_score_history ]_vars
    /\ []( pc = "RAISED" /\ raised = "teacher" =>
              HistoryRounds(iteration) /\ ScoreHistoryRounds(iteration) )
    /\ []( pc = "RAISED" /\ raised \in {"student critiques", "reward"} =>
              HistoryRounds(iteration - 1) /\ ScoreHistoryRounds(iteration - 1) )

\* the severity judge failed in round 2: the logs hold round 1 and nothing
\* of round 2
C22_Witness ==
    /\ pc = "RAISED"
    /\ raised = "reward"
    /\ iteration = 2
    /\ Len(history) = 1
    /\ history[1].iteration = 1
    /\ \E p \in DOMAIN student_score_history : Len(student_score_history[p]) = 1
    /\ \E p \in DOMAIN student_responses : student_responses[p].issue # NULL

----------------------------------------------------------------------------
(* Structured-output parser: utils/parsing.py *)

\* longest model output drawn
MaxTextLen == 5

\* a model output is a sequence of tokens: "f" a code fence (three
\* backticks, with or without the tag json), "{" and "}", "q" a double
\* quote, "1" a digit
Tokens == {"f", "{", "}", "q", "1"}

Texts == SeqsUpTo(Tokens, MaxTextLen)

\* text.find(t, from): the first index >= from holding t, 0 when none
FirstIndex(text, t, from) ==
    IF \E i \in from..Len(text) : text[i] = t
    THEN CHOOSE i \in from..Len(text) :
             text[i] = t /\ \A j \in from..(i - 1) : text[j] # t
    ELSE 0

\* text.rfind(t): the last index holding t, 0 when none
LastIndex(text, t) ==
    IF \E i \in 1..Len(text) : text[i] = t
    THEN CHOOSE i \in 1..Len(text) :
             text[i] = t /\ \A j \in (i + 1)..Len(text) : text[j] # t
    ELSE 0

\* the JSON values of the token alphabet: a number (digits), a string (no
\* quote between two quotes) and an object, written without its keys:
\* {} or one member value between the braces
RECURSIVE JsonType(_)
JsonType(s) ==
    IF s = <<>> THEN "none"
    ELSE IF \A i \in 1..Len(s) : s[i] = "1" THEN "number"
    ELSE IF Len(s) < 2 THEN "none"
    ELSE IF s[1] = "q" /\ s[Len(s)] = "q"
         THEN (IF \A i \in 2..(Len(s) - 1) : s[i] # "q" THEN "string" ELSE "none")
    ELSE IF s[1] = "{" /\ s[Len(s)] = "}"
         THEN (IF Len(s) = 2 \/ JsonType(SubSeq(s, 2, Len(s) - 1)) # "none"
               THEN "object" ELSE "none")
    ELSE "none"

\* json.loads(candidate): the value parsed, or the call raises
json_loads(candidate) ==
    IF JsonType(candidate) = "none"
    THEN [ok |-> FALSE, type |-> "none", src |-> <<>>]
    ELSE [ok |-> TRUE, type |-> JsonType(candidate), src |-> candidate]

\* the text each strategy hands to json.loads, if the strategy applies:
\* 1 the content between the first fence and the next one, 2 the whole
\* text, 3 the first "{" to the last "}" when that one comes later, 4 the
\* leftmost "{" to the end of a text that ends with "}"
Candidate(k, text) ==
    LET fence == FirstIndex(text, "f", 1)
        close == IF fence = 0 THEN 0 ELSE FirstIndex(text, "f", fence + 1)
        start == FirstIndex(text, "{", 1)
        end == LastIndex(text, "}")
        none == [found |-> FALSE, text |-> <<>>]
    IN  CASE k = 1 -> IF close # 0
                      THEN [found |-> TRUE, text |-> SubSeq(text, fence + 1, close - 1)]
                      ELSE none
          [] k = 2 -> [found |-> TRUE, text |-> text]
          [] k = 3 -> IF start # 0 /\ end # 0 /\ end > start
                      THEN [found |-> TRUE, text |-> SubSeq(text, start, end)]
                      ELSE none
          [] OTHER -> IF start # 0 /\ start < Len(text) /\ text[Len(text)] = "}"
                      THEN [found |-> TRUE, text |-> SubSeq(text, start, Len(text))]
                      ELSE none

\* the value strategy k returns, if it returns one
Attempt(k, text) ==
    IF Candidate(k, text).found THEN json_loads(Candidate(k, text).text)
    ELSE json_loads(<<>>)

ParseError == [raised |-> TRUE, strategy |-> 0, tried |-> 4, value |-> json_loads(<<>>)]

Parsed(k, text) == [raised |-> FALSE, strategy |-> k, tried |-> k, value |-> Attempt(k, text)]

\* _extract_json trying the whole text before the fenced block
extract_json_whole_first(text) ==
    IF Attempt(2, text).ok THEN Parsed(2, text)
    ELSE IF Attempt(1, text).ok THEN Parsed(1, text)
    ELSE IF Attempt(3, text).ok THEN Parsed(3, text)
    ELSE IF Attempt(4, text).ok THEN Parsed(4, text)
    ELSE ParseError

\* _extract_json(text)
extract_json(text) ==
    IF Attempt(1, text).ok THEN Parsed(1, text)
    ELSE IF Attempt(2, text).ok THEN Parsed(2, text)
    ELSE IF Attempt(3, text).ok THEN Parsed(3, text)
    ELSE IF Attempt(4, text).ok THEN Parsed(4, text)
    ELSE ParseError

----------------------------------------------------------------------------
(* The operations that call the parser *)

\* isinstance(parsed, dict) of a text that _extract_json parsed
ParsedObject(text) ==
    ~extract_json(text).raised /\ extract_json(text).value.type = "object"

\* the members of the object a student returned are its key set and the
\* value of its key issue; {'issue': null, 'severity': 0, 'quote': null} is
\* the form the student prompt tells the model to return for no issue
PromptNoIssueForm == [keys |-> {"issue", "severity", "quote"}, issue |-> NULL]

\* student_respond that reads an unparsable output as no issue found
student_respond_defaults(text, fields) ==
    IF extract_json(text).raised
    THEN [raised |-> FALSE, response |-> [persona |-> "p", issue |-> NULL, quote |-> NULL]]
    ELSE IF ~ParsedObject(text) \/ fields.keys # {"issue", "quote"}
    THEN [raised |-> TRUE, response |-> [persona |-> "p", issue |-> NULL, quote |-> NULL]]
    ELSE [raised |-> FALSE,
          response |-> [persona |-> "p", issue |-> fields.issue,
                        quote |-> IF fields.issue = NULL THEN NULL ELSE "quote"]]

\* student_respond on the model's output: the parser's error propagates,
\* a value that is no object and an object whose keys are not exactly
\* issue and quote raise ValueError
student_respond(text, fields) ==
    IF extract_json(text).raised
    THEN [raised |-> TRUE, response |-> [persona |-> "p", issue |-> NULL, quote |-> NULL]]
    ELSE IF ~ParsedObject(text) \/ fields.keys # {"issue", "quote"}
    THEN [raised |-> TRUE, response |-> [persona |-> "p", issue |-> NULL, quote |-> NULL]]
    ELSE [raised |-> FALSE,
          response |-> [persona |-> "p", issue |-> fields.issue,
                        quote |-> IF fields.issue = NULL THEN NULL ELSE "quote"]]

\* _judge_severity on the judge's output: the parser's error propagates
\* and a value that is no object raises
judge_severity_text(text, ans) ==
    IF ~ParsedObject(text) THEN [raised |-> TRUE, severity |-> 0]
    ELSE judge_severity_of(ans)

\* _calculate_uniqueness on the judge's output: every exception of the
\* try block, the parser's error included, leads to the fallback
calculate_uniqueness_text(issue, others, text, val) ==
    [raised |-> FALSE,
     uniqueness |-> calculate_uniqueness(issue, others,
                        [ok |-> ParsedObject(text), val |-> val])]

\* single_answer on the model's output: a parser error is replaced by an
\* empty object; the letter is the object's answer, else the letter found
\* in the raw text, else the letter of a second call; none of them raises
single_answer_of(text, answer, fallback_letter, enforced) ==
    LET parsed_answer == IF extract_json(text).raised THEN "" ELSE answer
        letter == IF parsed_answer # "" THEN parsed_answer
                  ELSE IF fallback_letter # "" THEN fallback_letter
                  ELSE enforced
    IN  IF ~extract_json(text).raised /\ ~ParsedObject(text)
        THEN [raised |-> TRUE, letter |-> ""]
        ELSE [raised |-> letter = "", letter |-> letter]

\* outputs handed to the callers: an object, a fenced object, an object
\* after other text, a number, and two outputs no strategy parses
CallerTexts ==
    { <<"{", "}">>, <<"f", "{", "}", "f">>, <<"1", "{", "}">>, <<"1">>,
      <<"{">>, <<"q", "1">> }

ParseInputs ==
    {[kind |-> "text", text |-> t] : t \in Texts}
    \cup {[kind |-> "student", text |-> t, fields |-> [keys |-> k, issue |-> i]] :
             t \in CallerTexts, k \in SUBSET {"issue", "quote", "severity"}, i \in Issues \cup {NULL}}
    \cup {[kind |-> "severity", text |-> t, answer |-> a] :
             t \in CallerTexts, a \in SeverityAnswers}
    \cup {[kind |-> "uniqueness", text |-> t, issue |-> "x", others |-> o, val |-> v] :
             t \in CallerTexts, o \in {<<>>, <<"X">>, <<"Y">>}, v \in RawUniqueness}
    \cup {[kind |-> "answer", text |-> t, answer |-> a, fallback_letter |-> f,
           enforced |-> e] :
             t \in CallerTexts, a \in Letters \cup {""}, f \in Letters \cup {""},
             e \in Letters \cup {""}}

InitParse ==
    /\ RunStart
    /\ profiles = TRUE
    /\ gpqa_question = "question"
    /\ gpqa_quiz = <<>>
    /\ max_iters = DefaultMaxIterations
    /\ stagnation_window = DefaultStagnationWindow
    /\ sd_in \in ParseInputs
    /\ sd_out = NoCall

\* _extract_json(text)
CallExtractJson ==
    /\ sd_out = NoCall
    /\ sd_in.kind = "text"
    /\ sd_out' = [kind |-> "extract_json", result |-> extract_json(sd_in.text)]
    /\ UNCHANGED <<runVars, sd_in>>

\* student_respond(persona, explanation, score_history)
CallStudentRespond ==
    /\ sd_out = NoCall
    /\ sd_in.kind = "student"
    /\ LET r == student_respond(sd_in.text, sd_in.fields)
       IN  sd_out' = [kind |-> "student_respond", raised |-> r.raised,
                      response |-> r.response]
    /\ UNCHANGED <<runVars, sd_in>>

\* _judge_severity(issue, explanation, quote)
CallJudgeSeverityText ==
    /\ sd_out = NoCall
    /\ sd_in.kind = "severity"
    /\ LET r == judge_severity_text(sd_in.text, sd_in.answer)
       IN  sd_out' = [kind |-> "judge_severity", raised |-> r.raised,
                      severity |-> r.severity]
    /\ UNCHANGED <<runVars, sd_in>>

\* _calculate_uniqueness(issue, other_issues)
CallCalculateUniquenessText ==
    /\ sd_out = NoCall
    /\ sd_in.kind = "uniqueness"
    /\ LET r == calculate_uniqueness_text(sd_in.issue, sd_in.others, sd_in.text,
                                          sd_in.val)
       IN  sd_out' = [kind |-> "calculate_uniqueness", raised |-> r.raised,
                      uniqueness |-> r.uniqueness]
    /\ UNCHANGED <<runVars, sd_in>>

\* single_answer(explanation, gpqa_question)
CallSingleAnswer ==
    /\ sd_out = NoCall
    /\ sd_in.kind = "answer"
    /\ LET r == single_answer_of(sd_in.text, sd_in.answer, sd_in.fallback_letter,
                                 sd_in.enforced)
       IN  sd_out' = [kind |-> "single_answer", raised |-> r.raised,
                      letter |-> r.letter]
    /\ UNCHANGED <<runVars, sd_in>>

NextParse ==
    \/ CallExtractJson
    \/ CallStudentRespond
    \/ CallJudgeSeverityText
    \/ CallCalculateUniquenessText
    \/ CallSingleAnswer

SpecParse == InitParse /\ [][NextParse]_vars

----------------------------------------------------------------------------
(* Properties of the parser and of its callers *)

\* the strategies whose candidate parses as JSON
Succeeding(text) == {k \in 1..4 : Attempt(k, text).ok}

\* C24: _extract_json tries the fenced block, the whole text, the first
\* "{" to the last "}" and the trailing object in this order: it returns
\* the value of the first of them whose candidate parses as JSON and tries
\* none of the later ones, and it raises exactly when none of the four
\* succeeds
C24_FirstSuccessWins ==
    sd_out.kind = "extract_json" =>
        LET r == sd_out.result
            S == Succeeding(sd_in.text)
        IN  /\ r.raised <=> S = {}
            /\ S # {} =>
                  /\ r.strategy \in S
                  /\ \A k \in S : r.strategy <= k
                  /\ r.tried = r.strategy
                  /\ r.value = json_loads(Candidate(r.strategy, sd_in.text).text)
            /\ r.raised => r.tried = 4

\* a string that holds a fenced number: the fenced block is returned
\* although the whole text parses too, to another value
C24_Witness ==
    /\ sd_out.kind = "extract_json"
    /\ sd_in.text = <<"q", "f", "1", "f", "q">>
    /\ Succeeding(sd_in.text) = {1, 2}
    /\ sd_out.result.strategy = 1
    /\ sd_out.result.value.type = "number"
    /\ Attempt(2, sd_in.text).type = "string"

----------------------------------------------------------------------------
(* The ranking and the order of the responses *)

\* the orders in which the critiques of the drawn round can be inserted
\* into student_responses
InsertionOrders ==
    {q \in [1..Len(sd_in.personas) -> Range(sd_in.personas)] :
        Range(q) = Range(sd_in.personas)}

\* the ranking of the drawn round for insertion order q
RankingFor(q) == rank_call([sd_in EXCEPT !.personas = q])

\* the entry of persona p in a ranking
EntryOf(scored, p) ==
    scored[CHOOSE i \in 1..Len(scored) : scored[i].persona = p]

\* the issues of the personas other than p, as a set
OtherIssueSet(p) == {sd_in.cases[r].issue : r \in WithIssue \ {p}}

\* the judges answer alike for the same issue and the same set of other
\* issues
FixedJudges ==
    \A p, r \in WithIssue :
        sd_in.cases[p].issue = sd_in.cases[r].issue /\ OtherIssueSet(p) = OtherIssueSet(r)
            => sd_in.cases[p] = sd_in.cases[r]

\* C25 as stated: for fixed critiques and judge answers each persona's
\* score and rank and the digest are the same for every order in which the
\* critiques were inserted into student_responses
C25_Original ==
    Ranked /\ FixedJudges =>
        \A q \in InsertionOrders :
            /\ \A p \in Range(sd_in.personas) :
                  /\ EntryOf(RankingFor(q).scored, p).score = EntryOf(sd_out.scored, p).score
                  /\ EntryOf(RankingFor(q).scored, p).rank = EntryOf(sd_out.scored, p).rank
            /\ format_filtered_critiques(RankingFor(q).scored, TopK)
                   = format_filtered_critiques(sd_out.scored, TopK)

\* C25 amended: for fixed critiques and judge answers each persona's score
\* is the same for every insertion order; personas of equal score are
\* ranked in insertion order, so the ranks and the digest are the same for
\* every insertion order when no two personas have the same score
C25_OrderIndependentScores ==
    Ranked /\ FixedJudges =>
        \A q \in InsertionOrders :
            LET other == RankingFor(q).scored
                index(p) == CHOOSE k \in 1..Len(q) : q[k] = p
            IN  /\ ~RankingFor(q).raised
                /\ \A p \in Range(sd_in.personas) :
                      /\ EntryOf(other, p).score = EntryOf(sd_out.scored, p).score
                      /\ EntryOf(other, p).rank =
                             1 + Cardinality({r \in Range(sd_in.personas) :
                                    \/ EntryOf(other, r).score > EntryOf(other, p).score
                                    \/ /\ EntryOf(other, r).score = EntryOf(other, p).score
                                       /\ index(r) < index(p)})
                /\ ( (\A i, j \in 1..Len(sd_out.scored) :
                          i # j => sd_out.scored[i].score # sd_out.scored[j].score)
                     => /\ other = sd_out.scored
                        /\ format_filtered_critiques(other, TopK)
                               = format_filtered_critiques(sd_out.scored, TopK) )

\* three critiques with three different scores, two of them with the
\* uniqueness judged: every insertion order gives this ranking
C25_Witness ==
    /\ Ranked
    /\ FixedJudges
    /\ sd_in.personas = RankPersonas
    /\ WithIssue = {"p1", "p3"}
    /\ sd_out.uniqueness_calls = {"p1", "p3"}
    /\ sd_out.scored[1].persona = "p3"
    /\ sd_out.scored[2].persona = "p1"
    /\ sd_out.scored[1].score > sd_out.scored[2].score
    /\ sd_out.scored[2].score > sd_out.scored[3].score

----------------------------------------------------------------------------
(* Parse failures in the callers of the parser *)

\* C23 as stated: a parse failure of the parser is fatal for every
\* operation that calls it: the operation raises and returns no guessed or
\* default value
C23_Original ==
    ( /\ sd_out.kind \in {"student_respond", "judge_severity",
                          "calculate_uniqueness", "single_answer"}
      /\ extract_json(sd_in.text).raised )
    => sd_out.raised

\* C23 amended: a parse failure is fatal for student_respond and
\* _judge_severity, which raise; _calculate_uniqueness, when it calls the
\* judge at all, catches it and returns 1 - the largest similarity to
\* another issue; single_answer catches it and returns the letter found in
\* the raw text or else the letter of a second call, and raises only when
\* neither gives a letter
C23_ParseFailureHandling ==
    sd_out.kind # "none" /\ sd_in.kind # "text" /\ extract_json(sd_in.text).raised =>
        CASE sd_out.kind \in {"student_respond", "judge_severity"} -> sd_out.raised
          [] sd_out.kind = "calculate_uniqueness" ->
                /\ ~sd_out.raised
                /\ sd_out.uniqueness =
                       IF sd_in.others = <<>> THEN ScoreScale
                       ELSE ScoreScale - MaxOf({Similarity(sd_in.issue, sd_in.others[i]) :
                                                   i \in 1..Len(sd_in.others)})
          [] OTHER ->
                /\ sd_out.raised <=> sd_in.fallback_letter = "" /\ sd_in.enforced = ""
                /\ sd_out.letter = IF sd_in.fallback_letter # ""
                                   THEN sd_in.fallback_letter ELSE sd_in.enforced

\* the output of a student could not be parsed and student_respond raised,
\* although the object the student meant held the keys issue and quote
C23_Witness ==
    /\ sd_out.kind = "student_respond"
    /\ sd_in.text = <<"q", "1">>
    /\ extract_json(sd_in.text).raised
    /\ sd_in.fields.keys = {"issue", "quote"}
    /\ sd_out.raised

\* C26: a response meaning no issue found (issue null), the form the
\* student prompt tells the model to return for that case included, is
\* accepted by student_respond without raising and returned as a critique
\* whose issue is null
C26_NoIssueAccepted ==
    ( /\ sd_out.kind = "student_respond"
      /\ ParsedObject(sd_in.text)
      /\ sd_in.fields.issue = NULL
      /\ \/ sd_in.fields.keys = {"issue", "quote"}
         \/ sd_in.fields = PromptNoIssueForm )
    => ~sd_out.raised /\ sd_out.response.issue = NULL

====
